---- MODULE Spec2Model ----
(***************************************************************************)
(* Model of the Tauri host shell in src-tauri/src/main.rs: chat windows,   *)
(* the close-to-tray main window, the window-state / notification stores,  *)
(* notification gating and click routing, and open_url.                    *)
(*                                                                         *)
(* Strings the code inspects character by character (chat ids, window      *)
(* labels, URLs, "HH:MM" times) are sequences of Unicode code points.      *)
(* Strings the code only compares for equality (notification ids, types,   *)
(* event names) are TLA+ strings.  Option<T> is <<>> (None) or <<v>>.      *)
(* A host call whose error the handler returns may fail: each handler      *)
(* takes the set `faults` of host calls that fail during that invocation.  *)
(* A request to an open window whose result the code drops (hide in the    *)
(* close handler, show and set_focus in the tray handler, the is_focused   *)
(* query) is made while the event loop serves that window and is answered. *)
(***************************************************************************)
EXTENDS Integers, Sequences, FiniteSets, TLC

VARIABLES
    windows,        \* open webview windows: set of [label, n, visible, chat]
    focus,          \* key <<label, n>> of the window holding input focus, or NoWin
    winState,       \* window-state.json store: label -> JSON value
    settingsStore,  \* notification-settings.json store: key -> JSON value
    notifStore,     \* notifications.json store (in memory): id -> JSON value
    notifDisk,      \* notifications.json as last saved to disk
    clock,          \* local time of day [h, m]
    opened,         \* URLs handed to the host opener, oldest first
    everSaved,      \* label -> the config save_window_state last set under it
    last            \* the last handler invocation: [op, arg, res, fx, pre, ...]

vars == <<windows, focus, winState, settingsStore, notifStore, notifDisk, clock, opened,
          everSaved, last>>

-----------------------------------------------------------------------------
(* Bounds of the model *)

MaxChatWindows == 2     \* chat windows open at the same time
MaxOpened == 2          \* length of the opener log

-----------------------------------------------------------------------------
(* Strings *)

None == <<>>
Some(v) == <<v>>
IsSome(o) == o # <<>>
Unwrap(o) == o[1]

MainLabel == <<109, 97, 105, 110>>            \* "main"
ChatPrefix == <<99, 104, 97, 116, 45>>        \* "chat-"
Hyphen == 45                                  \* '-'
Underscore == 95                              \* '_'

\* char::is_ascii_alphanumeric
IsAsciiAlphanumeric(c) ==
    \/ c \in 48..57
    \/ c \in 65..90
    \/ c \in 97..122

\* <str as Ord>::cmp(a, b) # Greater: lexicographic order by code point,
\* a proper prefix being smaller.
RECURSIVE StrLe(_, _)
StrLe(a, b) ==
    IF a = <<>> THEN TRUE
    ELSE IF b = <<>> THEN FALSE
    ELSE IF Head(a) < Head(b) THEN TRUE
    ELSE IF Head(a) > Head(b) THEN FALSE
    ELSE StrLe(Tail(a), Tail(b))

\* str::starts_with
StartsWith(s, p) == Len(s) >= Len(p) /\ SubSeq(s, 1, Len(p)) = p

-----------------------------------------------------------------------------
(* Handler results and host calls *)

Ok == [ok |-> TRUE, err |-> ""]
Err(e) == [ok |-> FALSE, err |-> e]

-----------------------------------------------------------------------------
(* Windows *)

\* A window is known by its label and, among the open windows of one label,
\* its number n; chat is the chat id in the URL it was opened on.
Key(w) == <<w.label, w.n>>
NoWin == <<>>

MainWindow(visible) == [label |-> MainLabel, n |-> 1, visible |-> visible, chat |-> None]
MainKey == <<MainLabel, 1>>

\* AppHandle::get_webview_window(label): the windows carrying the label
GetWebviewWindow(ws, label) == {w \in ws : w.label = label}

ChatWindows(ws) == {w \in ws : w.label # MainLabel}

FreshN(ws, label) ==
    CHOOSE i \in 1..(Cardinality(ws) + 1) : \A w \in ws : w.label = label => w.n # i

NewWindow(ws, label, chat_id) ==
    [label |-> label, n |-> FreshN(ws, label), visible |-> TRUE, chat |-> Some(chat_id)]

SetVisible(ws, key, v) ==
    {IF Key(w) = key THEN [w EXCEPT !.visible = v] ELSE w : w \in ws}

\* Faulty variant of CreateLabel: '_' is not kept.
CreateLabelNoUnderscore(chat_id) ==
    ChatPrefix \o [i \in 1..Len(chat_id) |->
        IF IsAsciiAlphanumeric(chat_id[i]) \/ chat_id[i] = Hyphen
        THEN chat_id[i] ELSE Hyphen]

\* create_chat_window: the label derived from the chat id
CreateLabel(chat_id) ==
    ChatPrefix \o [i \in 1..Len(chat_id) |->
        IF IsAsciiAlphanumeric(chat_id[i]) \/ chat_id[i] = Underscore \/ chat_id[i] = Hyphen
        THEN chat_id[i] ELSE Hyphen]

\* close_chat_window: the label derived from the chat id
CloseLabel(chat_id) ==
    ChatPrefix \o [i \in 1..Len(chat_id) |->
        IF IsAsciiAlphanumeric(chat_id[i]) \/ chat_id[i] = Underscore \/ chat_id[i] = Hyphen
        THEN chat_id[i] ELSE Hyphen]

\* Faulty variant of CreateChatWindowRun: the existing-window check is missing.
CreateChatWindowNoCheck(ws, fc, chat_id, faults) ==
    LET label == CreateLabel(chat_id)
        new == NewWindow(ws, label, chat_id)
    IN  IF "build" \in faults
        THEN [windows |-> ws, focus |-> fc, res |-> Err("build"), fx |-> <<>>]
        ELSE [windows |-> ws \cup {new}, focus |-> Key(new), res |-> Ok,
              fx |-> <<[call |-> "build", label |-> label]>>]

\* create_chat_window(chat_id, contact_name).  The host's build() is taken
\* to add a window whatever labels are open, so that uniqueness of labels
\* rests on the handler's own check.
CreateChatWindowRun(ws, fc, chat_id, faults) ==
    LET label == CreateLabel(chat_id)
        existing == GetWebviewWindow(ws, label)
        new == NewWindow(ws, label, chat_id)
    IN  IF existing # {}
        THEN LET w == CHOOSE x \in existing : TRUE
             IN  IF "set_focus" \in faults
                 THEN [windows |-> ws, focus |-> fc, res |-> Err("set_focus"), fx |-> <<>>]
                 ELSE [windows |-> ws, focus |-> Key(w), res |-> Ok,
                       fx |-> <<[call |-> "set_focus", label |-> label]>>]
        ELSE IF "build" \in faults
        THEN [windows |-> ws, focus |-> fc, res |-> Err("build"), fx |-> <<>>]
        ELSE [windows |-> ws \cup {new}, focus |-> Key(new), res |-> Ok,
              fx |-> <<[call |-> "build", label |-> label]>>]

\* Faulty variant of OnCloseRequested: the label test is missing, every window is destroyed.
OnCloseRequestedNoVeto(ws, fc, w) ==
    [windows |-> ws \ {w}, focus |-> IF fc = Key(w) THEN NoWin ELSE fc, vetoed |-> FALSE]

\* on_window_event, CloseRequested on window w: the main window is hidden
\* and the close is prevented; any other window is left to the host, which
\* destroys it.
OnCloseRequested(ws, fc, w) ==
    IF w.label = MainLabel
    THEN [windows |-> SetVisible(ws, Key(w), FALSE),
          focus |-> IF fc = Key(w) THEN NoWin ELSE fc, vetoed |-> TRUE]
    ELSE [windows |-> ws \ {w}, focus |-> IF fc = Key(w) THEN NoWin ELSE fc, vetoed |-> FALSE]

\* close_chat_window(chat_id): window.close() raises CloseRequested on it.
CloseChatWindowRun(ws, fc, chat_id, faults) ==
    LET label == CloseLabel(chat_id)
        found == GetWebviewWindow(ws, label)
    IN  IF found # {}
        THEN LET w == CHOOSE x \in found : TRUE
             IN  IF "close" \in faults
                 THEN [windows |-> ws, focus |-> fc, res |-> Err("close"), fx |-> <<>>]
                 ELSE LET r == OnCloseRequested(ws, fc, w)
                      IN  [windows |-> r.windows, focus |-> r.focus, res |-> Ok,
                           fx |-> <<[call |-> "close", label |-> label]>>]
        ELSE [windows |-> ws, focus |-> fc, res |-> Ok, fx |-> <<>>]

\* restore_from_tray: show and focus the main window, if there is one.
RestoreFromTrayRun(ws, fc, faults) ==
    LET found == GetWebviewWindow(ws, MainLabel)
    IN  IF found # {}
        THEN LET w == CHOOSE x \in found : TRUE
             IN  IF "show" \in faults
                 THEN [windows |-> ws, focus |-> fc, res |-> Err("show"), fx |-> <<>>]
                 ELSE IF "set_focus" \in faults
                 THEN [windows |-> SetVisible(ws, Key(w), TRUE), focus |-> fc,
                       res |-> Err("set_focus"),
                       fx |-> <<[call |-> "show", label |-> MainLabel]>>]
                 ELSE [windows |-> SetVisible(ws, Key(w), TRUE), focus |-> Key(w), res |-> Ok,
                       fx |-> <<[call |-> "show", label |-> MainLabel],
                                [call |-> "set_focus", label |-> MainLabel]>>]
        ELSE [windows |-> ws, focus |-> fc, res |-> Ok, fx |-> <<>>]

-----------------------------------------------------------------------------
(* Inputs of the window handlers *)

ChatIds == {
    <<97, 47, 98>>,                             \* "a/b"
    <<97, 45, 98>>,                             \* "a-b"
    <<97, 122, 95, 65, 90, 45, 48, 57>>,        \* "az_AZ-09"
    <<47, 58, 64, 91, 96, 123, 233, 32>>,       \* "/:@[`{" then e-acute, space
    <<>> }                                      \* ""

\* The host calls a handler makes, any one of which may fail.
FaultsOf(calls) == {{}} \cup {{c} : c \in calls}

Pre == [windows |-> windows, focus |-> focus]

StoresUnchanged ==
    UNCHANGED <<winState, settingsStore, notifStore, notifDisk, clock, opened, everSaved>>

-----------------------------------------------------------------------------
(* Window actions *)

CreateChatWindow ==
    \E chat_id \in ChatIds, faults \in FaultsOf({"set_focus", "build"}) :
        /\ \/ GetWebviewWindow(windows, CreateLabel(chat_id)) # {}
           \/ Cardinality(ChatWindows(windows)) < MaxChatWindows
        /\ LET r == CreateChatWindowRun(windows, focus, chat_id, faults)
           IN  /\ windows' = r.windows
               /\ focus' = r.focus
               /\ last' = [op |-> "create_chat_window", arg |-> chat_id, faults |-> faults,
                           label |-> CreateLabel(chat_id), res |-> r.res, fx |-> r.fx,
                           pre |-> Pre]
        /\ StoresUnchanged

CloseChatWindow ==
    \E chat_id \in ChatIds, faults \in FaultsOf({"close"}) :
        /\ LET r == CloseChatWindowRun(windows, focus, chat_id, faults)
           IN  /\ windows' = r.windows
               /\ focus' = r.focus
               /\ last' = [op |-> "close_chat_window", arg |-> chat_id, faults |-> faults,
                           label |-> CloseLabel(chat_id), res |-> r.res, fx |-> r.fx,
                           pre |-> Pre]
        /\ StoresUnchanged

\* minimize_to_tray(window): hides the window whose webview invoked it.
MinimizeToTray ==
    \E w \in windows, faults \in FaultsOf({"hide"}) :
        /\ IF "hide" \in faults
           THEN /\ UNCHANGED <<windows, focus>>
                /\ last' = [op |-> "minimize_to_tray", arg |-> w, faults |-> faults,
                            res |-> Err("hide"), fx |-> <<>>, pre |-> Pre]
           ELSE /\ windows' = SetVisible(windows, Key(w), FALSE)
                /\ focus' = IF focus = Key(w) THEN NoWin ELSE focus
                /\ last' = [op |-> "minimize_to_tray", arg |-> w, faults |-> faults,
                            res |-> Ok, fx |-> <<[call |-> "hide", label |-> w.label]>>,
                            pre |-> Pre]
        /\ StoresUnchanged

RestoreFromTray ==
    \E faults \in FaultsOf({"show", "set_focus"}) :
        /\ LET r == RestoreFromTrayRun(windows, focus, faults)
           IN  /\ windows' = r.windows
               /\ focus' = r.focus
               /\ last' = [op |-> "restore_from_tray", arg |-> None, faults |-> faults,
                           res |-> r.res, fx |-> r.fx, pre |-> Pre]
        /\ StoresUnchanged

\* on_tray_icon_event, left button released: show and focus the main window.
TrayLeftClick ==
    /\ LET found == GetWebviewWindow(windows, MainLabel)
       IN  IF found # {}
           THEN LET w == CHOOSE x \in found : TRUE
                IN  /\ windows' = SetVisible(windows, Key(w), TRUE)
                    /\ focus' = Key(w)
           ELSE UNCHANGED <<windows, focus>>
    /\ last' = [op |-> "tray_left_click", arg |-> None, faults |-> {},
                res |-> Ok, fx |-> <<>>, pre |-> Pre]
    /\ StoresUnchanged

\* The user asks a window to close (title-bar button, Alt+F4).
CloseRequested ==
    \E w \in windows :
        /\ LET r == OnCloseRequested(windows, focus, w)
           IN  /\ windows' = r.windows
               /\ focus' = r.focus
               /\ last' = [op |-> "close_requested", arg |-> w, faults |-> {},
                           res |-> Ok, vetoed |-> r.vetoed, fx |-> <<>>, pre |-> Pre]
        /\ StoresUnchanged

\* The user moves input focus to a visible window, or away from the application.
FocusChange ==
    \E f \in {NoWin} \cup {Key(w) : w \in {x \in windows : x.visible}} :
        /\ f # focus
        /\ focus' = f
        /\ last' = [op |-> "focus_change", arg |-> f, faults |-> {}, res |-> Ok, fx |-> <<>>]
        /\ UNCHANGED windows
        /\ StoresUnchanged


-----------------------------------------------------------------------------
(* JSON values and the key-value stores *)

JNull == [t |-> "null"]
JNum(v) == [t |-> "number", v |-> v]
JBool(b) == [t |-> "bool", v |-> b]
JStr(x) == [t |-> "string", v |-> x]
JObj(fields) == [t |-> "object", v |-> fields]

\* A store is a function from its keys to JSON values.
EmptyStore == [k \in {} |-> JNull]
StoreHas(st, k) == k \in DOMAIN st
StoreSet(st, k, v) == [x \in DOMAIN st \cup {k} |-> IF x = k THEN v ELSE st[x]]
StoreDelete(st, k) == [x \in DOMAIN st \ {k} |-> st[x]]

OkVal(v) == [ok |-> TRUE, err |-> "", val |-> v]

\* serde: Option<f64> to JSON and back
OptNumToValue(o) == IF o = None THEN JNull ELSE JNum(Unwrap(o))
OptNumOk(fields, k) == k \in DOMAIN fields => fields[k].t \in {"null", "number"}
OptNumFromValue(fields, k) ==
    IF k \in DOMAIN fields /\ fields[k].t = "number" THEN Some(fields[k].v) ELSE None

\* serde: a required field of the given JSON type
HasField(fields, k, t) == k \in DOMAIN fields /\ fields[k].t = t

\* Faulty variant of WindowConfigToValue: minimized is written from maximized.
WindowConfigToValueCopiedFlag(c) ==
    JObj([width |-> JNum(c.width), height |-> JNum(c.height),
          x |-> OptNumToValue(c.x), y |-> OptNumToValue(c.y),
          maximized |-> JBool(c.maximized), minimized |-> JBool(c.maximized)])

\* serde_json::to_value(config) for WindowConfig
WindowConfigToValue(c) ==
    JObj([width |-> JNum(c.width), height |-> JNum(c.height),
          x |-> OptNumToValue(c.x), y |-> OptNumToValue(c.y),
          maximized |-> JBool(c.maximized), minimized |-> JBool(c.minimized)])

\* serde_json::from_value::<WindowConfig>(value)
WindowConfigFromValue(v) ==
    IF /\ v.t = "object"
       /\ HasField(v.v, "width", "number")
       /\ HasField(v.v, "height", "number")
       /\ OptNumOk(v.v, "x")
       /\ OptNumOk(v.v, "y")
       /\ HasField(v.v, "maximized", "bool")
       /\ HasField(v.v, "minimized", "bool")
    THEN OkVal([width |-> v.v.width.v, height |-> v.v.height.v,
                x |-> OptNumFromValue(v.v, "x"), y |-> OptNumFromValue(v.v, "y"),
                maximized |-> v.v.maximized.v, minimized |-> v.v.minimized.v])
    ELSE Err("deserialize")

\* save_window_state(window_label, config)
SaveWindowStateRun(st, label, config, faults) ==
    IF "store_build" \in faults
    THEN [store |-> st, res |-> Err("store_build"), fx |-> <<>>]
    ELSE LET st2 == StoreSet(st, label, WindowConfigToValue(config))
         IN  IF "store_save" \in faults
             THEN [store |-> st2, res |-> Err("store_save"), fx |-> <<"set">>]
             ELSE [store |-> st2, res |-> Ok, fx |-> <<"set", "save">>]

\* load_window_state(window_label)
LoadWindowStateRun(st, label, faults) ==
    IF "store_build" \in faults
    THEN Err("store_build")
    ELSE IF StoreHas(st, label)
    THEN LET r == WindowConfigFromValue(st[label])
         IN  IF r.ok THEN OkVal(Some(r.val)) ELSE r
    ELSE OkVal(None)

\* Inputs of the window-state handlers.  The dimensions stand for the finite
\* f64 values a command argument can carry.
StateLabels == {MainLabel, <<99, 104, 97, 116, 45, 97>>, <<120>>}    \* "main", "chat-a", "x"

ConfigInputs == {
    [width |-> 1200, height |-> 800, x |-> None, y |-> None,
     maximized |-> FALSE, minimized |-> FALSE],
    [width |-> 600, height |-> 500, x |-> Some(0), y |-> Some(0 - 20),
     maximized |-> TRUE, minimized |-> FALSE],
    [width |-> 600, height |-> 500, x |-> Some(10), y |-> None,
     maximized |-> FALSE, minimized |-> TRUE],
    [width |-> 0, height |-> 300, x |-> None, y |-> Some(7),
     maximized |-> TRUE, minimized |-> TRUE] }

SaveWindowState ==
    \E label \in StateLabels, config \in ConfigInputs,
       faults \in FaultsOf({"store_build", "store_save"}) :
        /\ LET r == SaveWindowStateRun(winState, label, config, faults)
           IN  /\ winState' = r.store
               /\ everSaved' = IF "store_build" \in faults THEN everSaved
                               ELSE [l \in DOMAIN everSaved \cup {label} |->
                                        IF l = label THEN config ELSE everSaved[l]]
               /\ last' = [op |-> "save_window_state", arg |-> [label |-> label, config |-> config],
                           faults |-> faults, res |-> r.res, fx |-> r.fx,
                           pre |-> [winState |-> winState]]
        /\ UNCHANGED <<windows, focus, settingsStore, notifStore, notifDisk, clock, opened>>

LoadWindowState ==
    \E label \in StateLabels, faults \in FaultsOf({"store_build"}) :
        /\ last' = [op |-> "load_window_state", arg |-> [label |-> label],
                    faults |-> faults, res |-> LoadWindowStateRun(winState, label, faults),
                    fx |-> <<>>, pre |-> [winState |-> winState]]
        /\ UNCHANGED <<windows, focus, winState, settingsStore, notifStore, notifDisk, clock,
                       opened, everSaved>>


-----------------------------------------------------------------------------
(* open_url *)

HttpsPrefix == <<104, 116, 116, 112, 115, 58, 47, 47>>      \* "https://"
HttpPrefix == <<104, 116, 116, 112, 58, 47, 47>>            \* "http://"

\* Faulty variant of OpenUrlRun: the two prefix tests are joined by "or".
OpenUrlRunOrTest(log, url, faults) ==
    IF ~StartsWith(url, HttpsPrefix) \/ ~StartsWith(url, HttpPrefix)
    THEN [opened |-> log, res |-> Err("Invalid URL scheme"), fx |-> <<>>]
    ELSE IF "open" \in faults
    THEN [opened |-> log, res |-> Err("Failed to open URL"),
          fx |-> <<[call |-> "open_url", url |-> url]>>]
    ELSE [opened |-> Append(log, url), res |-> Ok,
          fx |-> <<[call |-> "open_url", url |-> url]>>]

\* open_url(url); fx lists the calls made to the host opener, log the URLs
\* the opener opened.
OpenUrlRun(log, url, faults) ==
    IF ~StartsWith(url, HttpsPrefix) /\ ~StartsWith(url, HttpPrefix)
    THEN [opened |-> log, res |-> Err("Invalid URL scheme"), fx |-> <<>>]
    ELSE IF "open" \in faults
    THEN [opened |-> log, res |-> Err("Failed to open URL"),
          fx |-> <<[call |-> "open_url", url |-> url]>>]
    ELSE [opened |-> Append(log, url), res |-> Ok,
          fx |-> <<[call |-> "open_url", url |-> url]>>]

UrlInputs == {
    <<102, 116, 112, 58, 47, 47, 101>>,                     \* "ftp://e"
    <<104, 116, 116, 112, 115, 58, 47, 47, 101>>,           \* "https://e"
    <<104, 116, 116, 112, 58, 47, 47, 101>>,                \* "http://e"
    <<104, 116, 116, 112, 58, 47, 47>>,                     \* "http://"
    <<72, 84, 84, 80, 83, 58, 47, 47, 101>>,                \* "HTTPS://e"
    <<104, 116, 116, 112, 58, 47, 101>>,                    \* "http:/e"
    <<104, 116, 116, 112, 115, 58, 47>>,                    \* "https:/"
    <<120, 104, 116, 116, 112, 58, 47, 47, 101>>,           \* "xhttp://e"
    <<32, 104, 116, 116, 112, 115, 58, 47, 47, 101>>,       \* " https://e"
    <<>> }                                                  \* ""

OpenUrl ==
    \E url \in UrlInputs, faults \in FaultsOf({"open"}) :
        /\ LET r == OpenUrlRun(opened, url, faults)
           IN  /\ Len(r.opened) <= MaxOpened
               /\ opened' = r.opened
               /\ last' = [op |-> "open_url", arg |-> url, faults |-> faults, res |-> r.res,
                           fx |-> r.fx, pre |-> [opened |-> opened]]
        /\ UNCHANGED <<windows, focus, winState, settingsStore, notifStore, notifDisk, clock,
                       everSaved>>


-----------------------------------------------------------------------------
(* Notification settings *)

\* NotificationSettings::default()
DefaultSettings ==
    [enabled |-> TRUE, sound_enabled |-> TRUE, show_preview |-> TRUE,
     suppress_when_focused |-> TRUE, quiet_hours_enabled |-> FALSE,
     quiet_hours_start |-> None, quiet_hours_end |-> None]

\* serde: Option<String> to JSON and back
OptStrToValue(o) == IF o = None THEN JNull ELSE JStr(Unwrap(o))
OptStrOk(fields, k) == k \in DOMAIN fields => fields[k].t \in {"null", "string"}
OptStrFromValue(fields, k) ==
    IF k \in DOMAIN fields /\ fields[k].t = "string" THEN Some(fields[k].v) ELSE None

\* serde_json::to_value(settings) for NotificationSettings
SettingsToValue(x) ==
    JObj([enabled |-> JBool(x.enabled), sound_enabled |-> JBool(x.sound_enabled),
          show_preview |-> JBool(x.show_preview),
          suppress_when_focused |-> JBool(x.suppress_when_focused),
          quiet_hours_enabled |-> JBool(x.quiet_hours_enabled),
          quiet_hours_start |-> OptStrToValue(x.quiet_hours_start),
          quiet_hours_end |-> OptStrToValue(x.quiet_hours_end)])

\* serde_json::from_value::<NotificationSettings>(value)
SettingsFromValue(v) ==
    IF /\ v.t = "object"
       /\ HasField(v.v, "enabled", "bool")
       /\ HasField(v.v, "sound_enabled", "bool")
       /\ HasField(v.v, "show_preview", "bool")
       /\ HasField(v.v, "suppress_when_focused", "bool")
       /\ HasField(v.v, "quiet_hours_enabled", "bool")
       /\ OptStrOk(v.v, "quiet_hours_start")
       /\ OptStrOk(v.v, "quiet_hours_end")
    THEN OkVal([enabled |-> v.v.enabled.v, sound_enabled |-> v.v.sound_enabled.v,
                show_preview |-> v.v.show_preview.v,
                suppress_when_focused |-> v.v.suppress_when_focused.v,
                quiet_hours_enabled |-> v.v.quiet_hours_enabled.v,
                quiet_hours_start |-> OptStrFromValue(v.v, "quiet_hours_start"),
                quiet_hours_end |-> OptStrFromValue(v.v, "quiet_hours_end")])
    ELSE Err("deserialize")

\* save_notification_settings(settings)
SaveNotificationSettingsRun(st, x, faults) ==
    IF "settings_store_build" \in faults
    THEN [store |-> st, res |-> Err("settings_store_build"), fx |-> <<>>]
    ELSE LET st2 == StoreSet(st, "settings", SettingsToValue(x))
         IN  IF "store_save" \in faults
             THEN [store |-> st2, res |-> Err("store_save"), fx |-> <<"set">>]
             ELSE [store |-> st2, res |-> Ok, fx |-> <<"set", "save">>]

\* load_notification_settings()
LoadNotificationSettingsRun(st, faults) ==
    IF "settings_store_build" \in faults
    THEN Err("settings_store_build")
    ELSE IF StoreHas(st, "settings")
    THEN SettingsFromValue(st["settings"])
    ELSE OkVal(DefaultSettings)

-----------------------------------------------------------------------------
(* show_notification *)

HoursPerDay == 24
MinutesPerHour == 60

\* chrono: now.format("%H:%M"), two digits each, zero padded
FormatHM(t) ==
    <<48 + (t.h \div 10), 48 + (t.h % 10), 58, 48 + (t.m \div 10), 48 + (t.m % 10)>>

\* Faulty variant of QuietHoursActive: the end of the range is exclusive.
QuietHoursActiveExclusiveEnd(x, current_time) ==
    /\ x.quiet_hours_enabled
    /\ IsSome(x.quiet_hours_start) /\ IsSome(x.quiet_hours_end)
    /\ StrLe(Unwrap(x.quiet_hours_start), current_time)
    /\ StrLe(current_time, Unwrap(x.quiet_hours_end))
    /\ current_time # Unwrap(x.quiet_hours_end)

\* Faulty variant of QuietHoursActive: the two comparisons are joined by "or".
QuietHoursActiveOr(x, current_time) ==
    /\ x.quiet_hours_enabled
    /\ IsSome(x.quiet_hours_start) /\ IsSome(x.quiet_hours_end)
    /\ \/ StrLe(Unwrap(x.quiet_hours_start), current_time)
       \/ StrLe(current_time, Unwrap(x.quiet_hours_end))

\* show_notification, the quiet-hours test
QuietHoursActive(x, current_time) ==
    /\ x.quiet_hours_enabled
    /\ IsSome(x.quiet_hours_start) /\ IsSome(x.quiet_hours_end)
    /\ StrLe(Unwrap(x.quiet_hours_start), current_time)
    /\ StrLe(current_time, Unwrap(x.quiet_hours_end))

\* show_notification, the action data stored for click handling
ActionData(data) ==
    [k \in {"notification_id", "type"}
           \cup (IF IsSome(data.chat_id) THEN {"chat_id"} ELSE {})
           \cup (IF IsSome(data.sender_id) THEN {"sender_id"} ELSE {}) |->
        CASE k = "notification_id" -> data.id
          [] k = "type" -> data.notification_type
          [] k = "chat_id" -> Unwrap(data.chat_id)
          [] k = "sender_id" -> Unwrap(data.sender_id)]

\* serde_json::to_value(&action_data) for HashMap<String, String>
ActionDataToValue(m) == JObj([k \in DOMAIN m |-> JStr(m[k])])

\* serde_json::from_value::<HashMap<String, String>>(value)
ActionDataFromValue(v) ==
    IF v.t = "object" /\ \A k \in DOMAIN v.v : v.v[k].t = "string"
    THEN OkVal([k \in DOMAIN v.v |-> v.v[k].v])
    ELSE Err("deserialize")

SetCall(data) ==
    [call |-> "store_set", key |-> data.id, value |-> ActionDataToValue(ActionData(data))]
SaveCall == [call |-> "store_save"]
ShowCall(data, body) == [call |-> "notify_show", title |-> data.title, body |-> body]

\* Faulty variant of StoreAndShow: the notification is shown before the store is saved.
StoreAndShowShowFirst(nst, ndisk, data, body, faults) ==
    IF "notif_store_build" \in faults
    THEN [store |-> nst, disk |-> ndisk, res |-> Err("notif_store_build"), fx |-> <<>>]
    ELSE LET st2 == StoreSet(nst, data.id, ActionDataToValue(ActionData(data)))
         IN  IF "notify_show" \in faults
             THEN [store |-> st2, disk |-> ndisk, res |-> Err("notify_show"),
                   fx |-> <<SetCall(data)>>]
             ELSE IF "store_save" \in faults
             THEN [store |-> st2, disk |-> ndisk, res |-> Err("store_save"),
                   fx |-> <<SetCall(data), ShowCall(data, body)>>]
             ELSE [store |-> st2, disk |-> st2, res |-> Ok,
                   fx |-> <<SetCall(data), ShowCall(data, body), SaveCall>>]

\* show_notification past the gates: store the action data, save, show.
StoreAndShow(nst, ndisk, data, body, faults) ==
    IF "notif_store_build" \in faults
    THEN [store |-> nst, disk |-> ndisk, res |-> Err("notif_store_build"), fx |-> <<>>]
    ELSE LET st2 == StoreSet(nst, data.id, ActionDataToValue(ActionData(data)))
         IN  IF "store_save" \in faults
             THEN [store |-> st2, disk |-> ndisk, res |-> Err("store_save"),
                   fx |-> <<SetCall(data)>>]
             ELSE IF "notify_show" \in faults
             THEN [store |-> st2, disk |-> st2, res |-> Err("notify_show"),
                   fx |-> <<SetCall(data), SaveCall>>]
             ELSE [store |-> st2, disk |-> st2, res |-> Ok,
                   fx |-> <<SetCall(data), SaveCall, ShowCall(data, body)>>]

Gated(nst, ndisk, res, gate) ==
    [store |-> nst, disk |-> ndisk, res |-> res, fx |-> <<>>, gate |-> gate]

\* show_notification(notification_data)
ShowNotificationRun(ws, fc, sst, nst, ndisk, clk, data, faults) ==
    LET loaded == LoadNotificationSettingsRun(sst, faults)
    IN  IF ~loaded.ok THEN Gated(nst, ndisk, Err(loaded.err), "error")
        ELSE LET x == loaded.val
                 main == GetWebviewWindow(ws, MainLabel)
                 is_focused == fc = MainKey
             IN  IF ~x.enabled THEN Gated(nst, ndisk, Ok, "disabled")
                 ELSE IF x.suppress_when_focused /\ main # {} /\ is_focused
                 THEN Gated(nst, ndisk, Ok, "focused")
                 ELSE IF QuietHoursActive(x, FormatHM(clk))
                 THEN Gated(nst, ndisk, Ok, "quiet_hours")
                 ELSE LET body == IF x.show_preview THEN data.body ELSE "New message"
                          r == StoreAndShow(nst, ndisk, data, body, faults)
                      IN  [store |-> r.store, disk |-> r.disk, res |-> r.res, fx |-> r.fx,
                           gate |-> "none"]

\* clear_all_notifications()
ClearAllNotificationsRun(nst, ndisk, faults) ==
    IF "notif_store_build" \in faults
    THEN [store |-> nst, disk |-> ndisk, res |-> Err("notif_store_build")]
    ELSE IF "store_save" \in faults
    THEN [store |-> EmptyStore, disk |-> ndisk, res |-> Err("store_save")]
    ELSE [store |-> EmptyStore, disk |-> EmptyStore, res |-> Ok]


-----------------------------------------------------------------------------
(* handle_notification_click *)

\* Faulty variant of ClickEvent: the two event names are exchanged.
ClickEventSwapped(type) ==
    IF type = Some("contact_request") THEN Some("show-group-invites")
    ELSE IF type = Some("group_invite") THEN Some("show-contact-requests")
    ELSE None

\* handle_notification_click: the UI event emitted for a notification type
ClickEvent(type) ==
    IF type = Some("contact_request") THEN Some("show-contact-requests")
    ELSE IF type = Some("group_invite") THEN Some("show-group-invites")
    ELSE None

\* handle_notification_click, the match on data.get("type")
RouteClick(ws, fc, data, faults) ==
    LET type == IF "type" \in DOMAIN data THEN Some(data["type"]) ELSE None
    IN  IF type = Some("message")
        THEN LET r1 == IF "chat_id" \in DOMAIN data
                       THEN CreateChatWindowRun(ws, fc, data["chat_id"], faults)
                       ELSE [windows |-> ws, focus |-> fc, res |-> Ok, fx |-> <<>>]
             IN  IF ~r1.res.ok THEN r1
                 ELSE LET r2 == RestoreFromTrayRun(r1.windows, r1.focus, faults)
                      IN  [r2 EXCEPT !.fx = r1.fx \o r2.fx]
        ELSE LET r2 == RestoreFromTrayRun(ws, fc, faults)
             IN  IF ~r2.res.ok \/ ClickEvent(type) = None
                    \/ GetWebviewWindow(r2.windows, MainLabel) = {}
                 THEN r2
                 ELSE IF "emit" \in faults THEN [r2 EXCEPT !.res = Err("emit")]
                 ELSE [r2 EXCEPT !.fx = Append(r2.fx, [call |-> "emit",
                                                        event |-> Unwrap(ClickEvent(type))])]

\* handle_notification_click(notification_id)
HandleNotificationClickRun(ws, fc, nst, ndisk, id, faults) ==
    IF "notif_store_build" \in faults
    THEN [windows |-> ws, focus |-> fc, store |-> nst, disk |-> ndisk,
          res |-> Err("notif_store_build"), fx |-> <<>>]
    ELSE IF ~StoreHas(nst, id)
    THEN [windows |-> ws, focus |-> fc, store |-> nst, disk |-> ndisk, res |-> Ok, fx |-> <<>>]
    ELSE LET parsed == ActionDataFromValue(nst[id])
         IN  IF ~parsed.ok
             THEN [windows |-> ws, focus |-> fc, store |-> nst, disk |-> ndisk,
                   res |-> Err(parsed.err), fx |-> <<>>]
             ELSE LET r == RouteClick(ws, fc, parsed.val, faults)
                      st2 == StoreDelete(nst, id)
                  IN  IF ~r.res.ok
                      THEN [windows |-> r.windows, focus |-> r.focus, store |-> nst,
                            disk |-> ndisk, res |-> r.res, fx |-> r.fx]
                      ELSE [windows |-> r.windows, focus |-> r.focus, store |-> st2,
                            disk |-> IF "store_save" \in faults THEN ndisk ELSE st2,
                            res |-> Ok, fx |-> r.fx]

-----------------------------------------------------------------------------
(* Inputs of the notification handlers *)

Notification(id, type, chat_id, sender_id) ==
    [id |-> id, title |-> "Title", body |-> "Hello", chat_id |-> chat_id,
     sender_id |-> sender_id, notification_type |-> type, timestamp |-> 1]

ChatAB == <<97, 47, 98>>        \* "a/b"

NotificationInputs == {
    Notification("n1", "message", Some(ChatAB), Some("u1")),
    Notification("n1", "message", None, None),
    Notification("n2", "contact_request", None, Some("u1")),
    Notification("n2", "group_invite", Some(ChatAB), None),
    Notification("n2", "system", None, None) }

GateNotifications == {
    Notification("n1", "message", Some(ChatAB), Some("u1")),
    Notification("n2", "contact_request", None, None) }

NotificationIds == {"n1", "n2"}

T0000 == <<48, 48, 58, 48, 48>>     \* "00:00"
T0800 == <<48, 56, 58, 48, 48>>     \* "08:00"
T1230 == <<49, 50, 58, 51, 48>>     \* "12:30"
T2200 == <<50, 50, 58, 48, 48>>     \* "22:00"
T2359 == <<50, 51, 58, 53, 57>>     \* "23:59"
T800 == <<56, 58, 48, 48>>          \* "8:00"

Settings(enabled, preview, suppress, quiet, start, end) ==
    [enabled |-> enabled, sound_enabled |-> TRUE, show_preview |-> preview,
     suppress_when_focused |-> suppress, quiet_hours_enabled |-> quiet,
     quiet_hours_start |-> start, quiet_hours_end |-> end]

\* Settings whose quiet-hours range wraps past midnight or lacks a bound.
WrappingSettings == {
    Settings(TRUE, TRUE, FALSE, TRUE, Some(T2200), Some(T0800)),
    Settings(TRUE, TRUE, FALSE, TRUE, Some(T2359), Some(T0000)),
    Settings(TRUE, TRUE, FALSE, TRUE, Some(T0800), None),
    Settings(TRUE, TRUE, FALSE, TRUE, None, Some(T2200)) }

SettingsInputs == WrappingSettings \cup {
    DefaultSettings,
    Settings(FALSE, TRUE, FALSE, FALSE, None, None),
    Settings(TRUE, FALSE, FALSE, FALSE, Some(T0000), Some(T2359)),
    Settings(TRUE, TRUE, FALSE, TRUE, Some(T0800), Some(T2200)),
    Settings(TRUE, TRUE, FALSE, TRUE, Some(T1230), Some(T1230)),
    Settings(TRUE, TRUE, FALSE, TRUE, Some(T800), Some(T2200)),
    Settings(TRUE, TRUE, TRUE, TRUE, Some(T0000), Some(T2359)) }

QuietSettings == WrappingSettings \cup {
    Settings(TRUE, TRUE, FALSE, TRUE, Some(T0800), Some(T2200)) }

ClockInputs == {
    [h |-> 0, m |-> 0], [h |-> 7, m |-> 59], [h |-> 8, m |-> 0], [h |-> 12, m |-> 30],
    [h |-> 22, m |-> 0], [h |-> 22, m |-> 1] }

NotifPre ==
    [windows |-> windows, focus |-> focus, settingsStore |-> settingsStore,
     notifStore |-> notifStore, notifDisk |-> notifDisk, clock |-> clock]

-----------------------------------------------------------------------------
(* Notification actions *)

SaveNotificationSettingsWith(inputs, faultChoices) ==
    \E x \in inputs, faults \in faultChoices :
        /\ LET r == SaveNotificationSettingsRun(settingsStore, x, faults)
           IN  /\ settingsStore' = r.store
               /\ last' = [op |-> "save_notification_settings", arg |-> x, faults |-> faults,
                           res |-> r.res, fx |-> r.fx]
        /\ UNCHANGED <<windows, focus, winState, notifStore, notifDisk, clock, opened,
                       everSaved>>

ShowNotificationWith(inputs, faultChoices) ==
    \E data \in inputs, faults \in faultChoices :
        /\ LET r == ShowNotificationRun(windows, focus, settingsStore, notifStore, notifDisk,
                                        clock, data, faults)
           IN  /\ notifStore' = r.store
               /\ notifDisk' = r.disk
               /\ last' = [op |-> "show_notification", arg |-> data, faults |-> faults,
                           res |-> r.res, fx |-> r.fx, gate |-> r.gate, pre |-> NotifPre]
        /\ UNCHANGED <<windows, focus, winState, settingsStore, clock, opened, everSaved>>

ShowFaults == FaultsOf({"settings_store_build", "notif_store_build", "store_save",
                        "notify_show"})

HandleNotificationClick ==
    \E id \in NotificationIds,
       faults \in FaultsOf({"notif_store_build", "set_focus", "build", "show", "emit",
                            "store_save"}) :
        /\ LET r == HandleNotificationClickRun(windows, focus, notifStore, notifDisk, id, faults)
           IN  /\ Cardinality(ChatWindows(r.windows)) <= MaxChatWindows
               /\ windows' = r.windows
               /\ focus' = r.focus
               /\ notifStore' = r.store
               /\ notifDisk' = r.disk
               /\ last' = [op |-> "handle_notification_click", arg |-> id, faults |-> faults,
                           res |-> r.res, fx |-> r.fx, pre |-> NotifPre]
        /\ UNCHANGED <<winState, settingsStore, clock, opened, everSaved>>

ClearAllNotifications ==
    \E faults \in FaultsOf({"notif_store_build", "store_save"}) :
        /\ LET r == ClearAllNotificationsRun(notifStore, notifDisk, faults)
           IN  /\ notifStore' = r.store
               /\ notifDisk' = r.disk
               /\ last' = [op |-> "clear_all_notifications", arg |-> None, faults |-> faults,
                           res |-> r.res, fx |-> <<>>]
        /\ UNCHANGED <<windows, focus, winState, settingsStore, clock, opened, everSaved>>

\* Time passes: the local clock reads any of the sampled times of day.
TimePasses ==
    \E t \in ClockInputs :
        /\ t # clock
        /\ clock' = t
        /\ last' = [op |-> "time_passes", arg |-> t, faults |-> {}, res |-> Ok, fx |-> <<>>]
        /\ UNCHANGED <<windows, focus, winState, settingsStore, notifStore, notifDisk, opened,
                       everSaved>>

\* One minute passes on the local clock.
MinuteTick ==
    /\ clock' = IF clock.m + 1 < MinutesPerHour THEN [clock EXCEPT !.m = clock.m + 1]
                ELSE [h |-> (clock.h + 1) % HoursPerDay, m |-> 0]
    /\ last' = [op |-> "minute_tick", arg |-> None, faults |-> {}, res |-> Ok, fx |-> <<>>]
    /\ UNCHANGED <<windows, focus, winState, settingsStore, notifStore, notifDisk, opened,
                   everSaved>>

-----------------------------------------------------------------------------

Init ==
    /\ windows = {MainWindow(TRUE)}
    /\ focus \in {NoWin, MainKey}
    /\ winState = EmptyStore
    /\ settingsStore = EmptyStore
    /\ notifStore = EmptyStore
    /\ notifDisk = EmptyStore
    /\ everSaved = [l \in {} |-> None]
    /\ clock = [h |-> 0, m |-> 0]
    /\ opened = <<>>
    /\ last = [op |-> "init", arg |-> None, faults |-> {}, res |-> Ok, fx |-> <<>>,
               pre |-> [windows |-> {MainWindow(TRUE)}, focus |-> NoWin]]

NextWin ==
    \/ CreateChatWindow
    \/ CloseChatWindow
    \/ MinimizeToTray
    \/ RestoreFromTray
    \/ TrayLeftClick
    \/ CloseRequested
    \/ FocusChange

SpecWin == Init /\ [][NextWin]_vars

NextStore ==
    \/ SaveWindowState
    \/ LoadWindowState

SpecStore == Init /\ [][NextStore]_vars

NextUrl == OpenUrl

SpecUrl == Init /\ [][NextUrl]_vars

\* Notification gating: settings, time of day and focus vary.
NextGate ==
    \/ SaveNotificationSettingsWith(SettingsInputs, FaultsOf({"settings_store_build", "store_save"}))
    \/ TimePasses
    \/ FocusChange
    \/ ShowNotificationWith(GateNotifications, ShowFaults)
    \/ ClearAllNotifications

SpecGate == Init /\ [][NextGate]_vars

\* Quiet hours over every minute of the day.
NextQuiet ==
    \/ SaveNotificationSettingsWith(QuietSettings, {{}})
    \/ MinuteTick
    \/ ShowNotificationWith({Notification("n1", "message", None, None)}, {{}})

SpecQuiet == Init /\ [][NextQuiet]_vars

\* Click routing: notifications are shown under the default settings and clicked.
NextClick ==
    \/ ShowNotificationWith(NotificationInputs, FaultsOf({"store_save"}))
    \/ HandleNotificationClick
    \/ ClearAllNotifications
    \/ FocusChange
    \/ CloseRequested

SpecClick == Init /\ [][NextClick]_vars

-----------------------------------------------------------------------------
(* Window claims, checked under SpecWin *)

\* The windows of the state before the last handler ran that carry `label`.
PreWindows(label) == {w \in last.pre.windows : w.label = label}

\* C3: a create_chat_window for a chat whose window is already open creates
\* no window and, when the host's set_focus succeeds, returns ok with that
\* window focused; at all times no two open windows share a label.
C3_CreateTwiceFocuses ==
    /\ \A w1, w2 \in windows : w1.label = w2.label => w1 = w2
    /\ (last.op = "create_chat_window" /\ PreWindows(last.label) # {}) =>
          /\ windows = last.pre.windows
          /\ "set_focus" \notin last.faults =>
                /\ last.res = Ok
                /\ focus \in {Key(w) : w \in PreWindows(last.label)}
                /\ last.fx = <<[call |-> "set_focus", label |-> last.label]>>
          /\ "set_focus" \in last.faults => ~last.res.ok /\ focus = last.pre.focus

\* C3 witness: a second create for the same chat id found the window that the
\* first create opened, which did not hold focus, and focused it.
C3_Witness ==
    /\ last.op = "create_chat_window"
    /\ last.res = Ok
    /\ \E w \in last.pre.windows :
          /\ w.chat = Some(last.arg)
          /\ last.pre.focus # Key(w)
          /\ focus = Key(w)
    /\ windows = last.pre.windows

\* The characters the label keeps: [A-Za-z0-9_-]
KeptChars == (65..90) \cup (97..122) \cup (48..57) \cup {95, 45}

\* label is "chat-" followed by id with each character outside KeptChars
\* replaced by one '-'.
LabelLaw(id, label) ==
    /\ Len(label) = 5 + Len(id)
    /\ SubSeq(label, 1, 5) = <<99, 104, 97, 116, 45>>
    /\ \A i \in 1..Len(id) :
          label[5 + i] = IF id[i] \in KeptChars THEN id[i] ELSE 45

\* C4: the label create_chat_window and close_chat_window derive obeys
\* LabelLaw, both derive the same label for the same chat id, and a
\* close_chat_window that returns ok leaves exactly the windows that do
\* not carry that label, so the window create opened for the id is gone.
C4_LabelAgreement ==
    /\ last.op \in {"create_chat_window", "close_chat_window"} =>
          /\ LabelLaw(last.arg, last.label)
          /\ last.label = CreateLabel(last.arg)
          /\ last.label = CloseLabel(last.arg)
    /\ (last.op = "create_chat_window" /\ last.res = Ok) =>
          \E w \in windows : w.label = CloseLabel(last.arg)
    /\ (last.op = "close_chat_window" /\ last.res = Ok) =>
          /\ windows = {w \in last.pre.windows : w.label # CreateLabel(last.arg)}
          /\ \A w \in last.pre.windows : w.chat = Some(last.arg) => w \notin windows

\* C4 witness: close_chat_window for an id with a replaced character closed
\* the window create_chat_window had opened for that id and left another
\* chat window open.
C4_Witness ==
    /\ last.op = "close_chat_window"
    /\ last.res = Ok
    /\ \E i \in 1..Len(last.arg) : last.arg[i] \notin KeptChars
    /\ \E w \in last.pre.windows : w.chat = Some(last.arg) /\ w \notin windows
    /\ ChatWindows(windows) # {}

\* C5: the main window is never destroyed; a close request on it is vetoed
\* and leaves it hidden; a close request on another window is not vetoed,
\* removes that window and leaves the main window as it was.
C5_MainNeverDestroyed ==
    /\ \E w \in windows : Key(w) = MainKey
    /\ last.op = "close_requested" =>
          IF last.arg.label = MainLabel
          THEN /\ last.vetoed
               /\ \A w \in windows : w.label = MainLabel => ~w.visible
          ELSE /\ ~last.vetoed
               /\ last.arg \notin windows
               /\ PreWindows(MainLabel) = GetWebviewWindow(windows, MainLabel)

\* C5 witness: a close request on the visible main window left it open and hidden.
C5_Witness ==
    /\ last.op = "close_requested"
    /\ last.arg = MainWindow(TRUE)
    /\ last.vetoed
    /\ MainWindow(FALSE) \in windows

-----------------------------------------------------------------------------
(* Window-state claim, checked under SpecStore *)

\* C7: after a save_window_state that returned ok, load_window_state of the
\* same label returns the saved config, equal in all six fields; a save
\* leaves what every other label loads unchanged; and a label never saved
\* loads as None, not as an error.
C7_WindowStateRoundTrip ==
    /\ (last.op = "save_window_state" /\ last.res.ok) =>
          LET got == LoadWindowStateRun(winState, last.arg.label, {})
              c == last.arg.config
          IN  /\ got.ok
              /\ got.val # None
              /\ Unwrap(got.val).width = c.width
              /\ Unwrap(got.val).height = c.height
              /\ Unwrap(got.val).x = c.x
              /\ Unwrap(got.val).y = c.y
              /\ Unwrap(got.val).maximized = c.maximized
              /\ Unwrap(got.val).minimized = c.minimized
    /\ last.op = "save_window_state" =>
          \A l \in StateLabels \ {last.arg.label} :
              LoadWindowStateRun(winState, l, {}) = LoadWindowStateRun(last.pre.winState, l, {})
    /\ \A l \in StateLabels \ DOMAIN everSaved :
          LoadWindowStateRun(winState, l, {}) = OkVal(None)
    /\ (last.op = "load_window_state" /\ last.faults = {}) =>
          /\ last.res.ok
          /\ last.arg.label \notin DOMAIN everSaved => last.res.val = None
          /\ last.arg.label \in DOMAIN everSaved =>
                last.res.val = Some(everSaved[last.arg.label])

\* C7 witness: a load returned the config saved under its label, one with a
\* position on one axis only, while another label holds a different config
\* and a third was never saved.
C7_Witness ==
    /\ last.op = "load_window_state"
    /\ last.res.ok
    /\ last.res.val # None
    /\ Unwrap(last.res.val).x # None
    /\ Unwrap(last.res.val).y = None
    /\ \E l \in DOMAIN everSaved : LoadWindowStateRun(winState, l, {}) # last.res
    /\ StateLabels \ DOMAIN everSaved # {}

-----------------------------------------------------------------------------
(* open_url claim, checked under SpecUrl *)

\* url begins with the characters of "http://" or of "https://".
HasHttpScheme(url) ==
    \/ Len(url) >= 7 /\ \A i \in 1..7 : url[i] = <<104, 116, 116, 112, 58, 47, 47>>[i]
    \/ Len(url) >= 8 /\ \A i \in 1..8 : url[i] = <<104, 116, 116, 112, 115, 58, 47, 47>>[i]

\* C6: for a url with neither prefix open_url returns "Invalid URL scheme"
\* and makes no opener call; for a url with one of them it hands exactly
\* that url to the opener and returns ok when the opener succeeds.
C6_OpenUrlScheme ==
    last.op = "open_url" =>
        IF HasHttpScheme(last.arg)
        THEN /\ last.fx = <<[call |-> "open_url", url |-> last.arg]>>
             /\ "open" \notin last.faults =>
                   last.res = Ok /\ opened = Append(last.pre.opened, last.arg)
             /\ "open" \in last.faults =>
                   last.res = Err("Failed to open URL") /\ opened = last.pre.opened
        ELSE /\ last.res = Err("Invalid URL scheme")
             /\ last.fx = <<>>
             /\ opened = last.pre.opened

\* C6 witness: "ftp://e" was rejected after "https://e" had been opened.
C6_Witness ==
    /\ last.op = "open_url"
    /\ last.arg = <<102, 116, 112, 58, 47, 47, 101>>
    /\ last.res = Err("Invalid URL scheme")
    /\ opened = <<(<<104, 116, 116, 112, 115, 58, 47, 47, 101>>)>>

-----------------------------------------------------------------------------
(* Notification gating claims, checked under SpecGate *)

\* The settings show_notification loaded in the last invocation.
LoadedSettings == LoadNotificationSettingsRun(last.pre.settingsStore, {}).val

\* The last invocation called notification.show().
Showed == \E i \in 1..Len(last.fx) : last.fx[i].call = "notify_show"

\* The three cases in which show_notification does nothing.
NoOpCase ==
    LET x == LoadedSettings
        now == FormatHM(last.pre.clock)
    IN  \/ ~x.enabled
        \/ x.suppress_when_focused /\ last.pre.focus = MainKey
        \/ /\ x.quiet_hours_enabled
           /\ x.quiet_hours_start # None /\ x.quiet_hours_end # None
           /\ StrLe(Unwrap(x.quiet_hours_start), now)
           /\ StrLe(now, Unwrap(x.quiet_hours_end))

\* C1: with the settings loaded, show_notification returns ok, leaves the
\* notifications store as it was and shows nothing when notifications are
\* disabled, when suppress_when_focused is set and the main window has
\* focus, or when quiet hours are enabled with both bounds set and
\* start <= now <= end as strings; in every other case, the store and the
\* notifier working, the notification is shown.
C1_ShowNotificationGates ==
    (last.op = "show_notification" /\ "settings_store_build" \notin last.faults) =>
        /\ NoOpCase =>
              /\ last.res = Ok
              /\ last.fx = <<>>
              /\ notifStore = last.pre.notifStore
              /\ notifDisk = last.pre.notifDisk
        /\ (~NoOpCase /\ last.faults = {}) =>
              /\ last.res = Ok
              /\ Showed

\* C1 witness: quiet hours suppressed a notification at the very end of the
\* range, notifications enabled and the main window not focused.
C1_Witness ==
    /\ last.op = "show_notification"
    /\ last.faults = {}
    /\ LoadedSettings.enabled
    /\ last.pre.focus # MainKey
    /\ LoadedSettings.quiet_hours_enabled
    /\ LoadedSettings.quiet_hours_end = Some(FormatHM(last.pre.clock))
    /\ LoadedSettings.quiet_hours_start # LoadedSettings.quiet_hours_end
    /\ last.res = Ok
    /\ last.fx = <<>>
    /\ ~StoreHas(notifStore, last.arg.id)

\* The action-data record of a notification is stored under its id.
RecordStored(st, data) ==
    /\ data.id \in DOMAIN st
    /\ st[data.id].t = "object"
    /\ LET f == st[data.id].v
       IN  /\ DOMAIN f = {"notification_id", "type"}
                           \cup {k \in {"chat_id"} : data.chat_id # None}
                           \cup {k \in {"sender_id"} : data.sender_id # None}
           /\ f["notification_id"] = [t |-> "string", v |-> data.id]
           /\ f["type"] = [t |-> "string", v |-> data.notification_type]
           /\ data.chat_id # None => f["chat_id"] = [t |-> "string", v |-> data.chat_id[1]]
           /\ data.sender_id # None => f["sender_id"] = [t |-> "string", v |-> data.sender_id[1]]

\* C9: whenever show_notification shows a notification, the set of the
\* action-data record and the save of the store came before the show call,
\* in that order, and the record is in the store and on disk; when the save
\* fails the handler returns an error and shows nothing.
C9_RecordStoredBeforeShow ==
    last.op = "show_notification" =>
        /\ Showed =>
              /\ Len(last.fx) = 3
              /\ last.fx[1].call = "store_set" /\ last.fx[1].key = last.arg.id
              /\ last.fx[2].call = "store_save"
              /\ last.fx[3].call = "notify_show"
              /\ RecordStored(notifStore, last.arg)
              /\ RecordStored(notifDisk, last.arg)
        /\ (\E i \in 1..Len(last.fx) : last.fx[i].call = "store_set")
              /\ "store_save" \in last.faults =>
              /\ ~last.res.ok
              /\ ~Showed

\* C9 witness: a notification with a chat id and a sender id was shown over
\* a store that held no record for it.
C9_Witness ==
    /\ last.op = "show_notification"
    /\ Showed
    /\ last.res = Ok
    /\ last.arg.chat_id # None
    /\ last.arg.sender_id # None
    /\ ~StoreHas(last.pre.notifStore, last.arg.id)
    /\ RecordStored(notifDisk, last.arg)

-----------------------------------------------------------------------------
(* Quiet-hours claim, checked under SpecQuiet *)

\* C10: with quiet hours enabled and the start lexically greater than the
\* end, or a bound unset, show_notification is not suppressed by quiet
\* hours at any minute of the day.
C10_NoWrapPastMidnight ==
    LET x == LoadedSettings
    IN  (/\ last.op = "show_notification"
         /\ x.quiet_hours_enabled
         /\ \/ x.quiet_hours_start = None
            \/ x.quiet_hours_end = None
            \/ ~StrLe(Unwrap(x.quiet_hours_start), Unwrap(x.quiet_hours_end))) =>
            /\ last.gate # "quiet_hours"
            /\ Showed

\* C10 witness: at 23:00, inside a 22:00 to 08:00 night, the notification was shown.
C10_Witness ==
    /\ last.op = "show_notification"
    /\ LoadedSettings.quiet_hours_enabled
    /\ LoadedSettings.quiet_hours_start = Some(T2200)
    /\ LoadedSettings.quiet_hours_end = Some(T0800)
    /\ last.pre.clock = [h |-> 23, m |-> 0]
    /\ Showed

-----------------------------------------------------------------------------
(* Click-routing claims, checked under SpecClick *)

\* The action data stored under the clicked id before the click.
ClickedData == last.pre.notifStore[last.arg].v

ClickedType == IF "type" \in DOMAIN ClickedData THEN ClickedData["type"].v ELSE "none"

ShowMain == [call |-> "show", label |-> MainLabel]
FocusMain == [call |-> "set_focus", label |-> MainLabel]

\* "chat-" followed by the chat id, characters outside KeptChars replaced by '-'.
ChatLabel(chat) ==
    <<99, 104, 97, 116, 45>> \o [i \in 1..Len(chat) |->
                                   IF chat[i] \in KeptChars THEN chat[i] ELSE 45]

\* What a click on the stored record is to do with the host, in order.
ExpectedRoute ==
    IF ClickedType = "message" /\ "chat_id" \in DOMAIN ClickedData
    THEN LET label == ChatLabel(ClickedData["chat_id"].v)
         IN  <<[call |-> IF PreWindows(label) # {} THEN "set_focus" ELSE "build",
                label |-> label], ShowMain, FocusMain>>
    ELSE IF ClickedType = "contact_request"
    THEN <<ShowMain, FocusMain, [call |-> "emit", event |-> "show-contact-requests"]>>
    ELSE IF ClickedType = "group_invite"
    THEN <<ShowMain, FocusMain, [call |-> "emit", event |-> "show-group-invites"]>>
    ELSE <<ShowMain, FocusMain>>

\* C2 as claimed: once handle_notification_click has finished for an id
\* with a stored record, the record is absent from the store, whatever the
\* outcome of the routing.
C2_RecordDeletedRegardless ==
    (last.op = "handle_notification_click" /\ StoreHas(last.pre.notifStore, last.arg)
        /\ "notif_store_build" \notin last.faults) =>
        ~StoreHas(notifStore, last.arg)

\* C8: a click on an id with a stored record that returns ok has made
\* exactly the host calls of ExpectedRoute, leaving the main window shown
\* and focused; a click that fails has made a proper prefix of them; only
\* a "message" record with a chat id changes the set of chat windows.
C8_ClickDispatch ==
    (last.op = "handle_notification_click" /\ StoreHas(last.pre.notifStore, last.arg)
        /\ "notif_store_build" \notin last.faults) =>
        /\ last.res.ok =>
              /\ last.fx = ExpectedRoute
              /\ focus = MainKey
              /\ MainWindow(TRUE) \in windows
        /\ ~last.res.ok =>
              /\ Len(last.fx) < Len(ExpectedRoute)
              /\ \A i \in 1..Len(last.fx) : last.fx[i] = ExpectedRoute[i]
        /\ ~(ClickedType = "message" /\ "chat_id" \in DOMAIN ClickedData) =>
              ChatWindows(windows) = ChatWindows(last.pre.windows)
        /\ (ClickedType = "message" /\ "chat_id" \in DOMAIN ClickedData /\ last.res.ok) =>
              \E w \in windows : w.label = ChatLabel(ClickedData["chat_id"].v)

\* C8 witness: a click on a contact_request notification, the main window
\* hidden, showed and focused it and emitted show-contact-requests.
C8_Witness ==
    /\ last.op = "handle_notification_click"
    /\ StoreHas(last.pre.notifStore, last.arg)
    /\ ClickedType = "contact_request"
    /\ MainWindow(FALSE) \in last.pre.windows
    /\ last.res = Ok
    /\ last.fx = <<ShowMain, FocusMain, [call |-> "emit", event |-> "show-contact-requests"]>>
    /\ MainWindow(TRUE) \in windows

====
